---- MODULE Spec2Model ----
(***************************************************************************)
(* A model of the tiktoken-go tokenizer: the Codec facade (Encode, Count,  *)
(* Decode), the BPE merge engine (bpe), the pooled scratch buffers, the    *)
(* model-name resolution (EncodingForModel, ForModel, Get) and the decode  *)
(* path of the command-line tool.                                          *)
(*                                                                         *)
(* Bytes are one-character strings, a Go string or []byte is a sequence of *)
(* bytes, and a Go map is a TLA+ function whose DOMAIN is the key set.     *)
(* Go indexes from 0 and TLA+ from 1: parts[i] of the code is parts[i+1]   *)
(* here, and piece[s:e] is SubSeq(piece, s+1, e).                          *)
(***************************************************************************)
EXTENDS Integers, Sequences, FiniteSets, TLC

(***************************************************************************)
(* Bounds of the model.                                                    *)
(***************************************************************************)
\* longest input text handed to Encode / Count
MaxText == 3
\* longest chunk handed to bpe on its own
MaxChunk == 4
\* most multi-byte pieces in a vocabulary
MaxMulti == 2
\* longest id list handed to Decode
MaxIds == 2
\* goroutines calling into one Codec at once
RaceThreads == 2
\* goroutines inside bpe at once
PoolCallers == 2
\* slices allocated in a run of the pool model
MaxAllocs == 5
\* longest suffix put after a known model name or prefix
MaxSuffix == 1
\* longest value of the command's -decode flag
MaxDecodeLen == 3
\* most positional arguments of the command
MaxArgs == 1

\* math.MaxUint, the "unrankable" score, at the width of TLC's integers.
\* Every rank of a vocabulary is below it.
MaxUint == 2147483647

Alphabet == {"a", "b", "c"}

\* the byte values in their numeric order
ByteOrder == <<"a", "b", "c">>

\* the byte strings of length 0..n
Strings(n) == UNION {[1..k -> Alphabet] : k \in 0..n}

(***************************************************************************)
(* Vocabularies (type vocab, map[string]uint).  A vocabulary is built once *)
(* at construction.  The family below holds the single bytes and up to     *)
(* MaxMulti multi-byte pieces ranked in the order of a list; the "tied"    *)
(* vocabularies give every multi-byte piece the same rank (the mapping is  *)
(* not injective) and the "partial" ones lack the byte "c".                *)
(***************************************************************************)
MultiPieces ==
    {<<"a", "a">>, <<"a", "b">>, <<"b", "a">>, <<"b", "c">>, <<"a", "b", "c">>}

InjectiveLists(S, n) ==
    UNION {{l \in [1..k -> S] : \A i, j \in 1..k : i # j => l[i] # l[j]} : k \in 0..n}

Range(f) == {f[x] : x \in DOMAIN f}

IndexOf(l, x) == CHOOSE i \in 1..Len(l) : l[i] = x

MkVocab(variant, multis) ==
    LET bytes == IF variant = "partial" THEN {<<"a">>, <<"b">>}
                 ELSE {<<ByteOrder[i]>> : i \in 1..Len(ByteOrder)}
    IN  [p \in bytes \cup Range(multis) |->
            IF Len(p) = 1 THEN IndexOf(ByteOrder, p[1]) - 1
            ELSE IF variant = "tied" THEN Len(ByteOrder)
            ELSE Len(ByteOrder) + IndexOf(multis, p) - 1]

Vocabs ==
    {MkVocab(v, m) : v \in {"plain", "tied", "partial"},
                     m \in InjectiveLists(MultiPieces, MaxMulti)}

\* the vocabulary of the scenario: a=0, b=1, c=2, ab=3, abc=4
ToyVocab == MkVocab("plain", <<<<"a", "b">>, <<"a", "b", "c">>>>)

Injective(v) == \A p, q \in DOMAIN v : v[p] = v[q] => p = q

HasBytesOf(v, pc) == \A i \in 1..Len(pc) : <<pc[i]>> \in DOMAIN v

ByteComplete(v) == \A b \in Alphabet : <<b>> \in DOMAIN v

\* c.vocabulary[token] read without the ok flag: the zero value when absent
VocabGet(v, token) == IF token \in DOMAIN v THEN v[token] ELSE 0

RECURSIVE Concat(_)
Concat(ss) == IF ss = <<>> THEN <<>> ELSE Head(ss) \o Concat(Tail(ss))

\* the vocabularies the facade is driven with
FacadeMultiPieces == {<<"a", "b">>, <<"b", "c">>, <<"a", "b", "c">>}

FacadeVocabs ==
    {MkVocab(v, m) : v \in {"plain", "tied", "partial"},
                     m \in InjectiveLists(FacadeMultiPieces, MaxMulti)}

\* the ways a text falls into non-empty chunks, in order and without gaps
RECURSIVE Partitions(_)
Partitions(t) ==
    IF t = <<>> THEN {<<>>}
    ELSE UNION {{<<SubSeq(t, 1, k)>> \o rest : rest \in Partitions(SubSeq(t, k + 1, Len(t)))}
                : k \in 1..Len(t)}

\* a nil map: Go tells it from a map made empty by make
Nil == [isNil |-> TRUE, map |-> <<>>]
Map(m) == [isNil |-> FALSE, map |-> m]
NoErr == <<>>
NoCall == [op |-> "none"]

VARIABLES
    vocabulary,         \* Codec.vocabulary
    reverseVocabulary,  \* Codec.reverseVocabulary: Nil, or a map from id to piece
    input,              \* the text handed to Encode and Count
    matches,            \* the matches of c.splitRegexp on input, in order
    matchErr,           \* the match after which the pattern engine fails: 0 for
                        \* FindStringMatch, k for the FindNextMatch that follows
                        \* match k, -1 for no failure
    last,               \* the last call of the facade and what it returned
    calls,              \* per goroutine: the call it is in and where it stands
    fatal,              \* the Go runtime has aborted the program
    partPool,           \* the slices held by the sync.Pool partPool
    heap,               \* the slices allocated so far: heap[b] = [kind, cap]
    model,              \* ForModel: the model name asked for
    mpc,                \* ForModel: "start", "prefix", "get", "done"
    mleft,              \* ForModel: the prefixes the range loop has yet to visit
    menc,               \* ForModel: the Encoding EncodingForModel returned
    mres,               \* ForModel: the returned [codec, err]
    cliDecode,          \* the command: the value of -decode
    cliArgs,            \* the command: flag.Args()
    cpc,                \* the command: "start", "parse", "decode", "done", "fatal"
    cliFields,          \* the command: strings.Split(tokens, " ")
    cliIds,             \* the command: the ids handed to codec.Decode
    cliOut,             \* the command: what it printed, or its fatal message
    pcalls,             \* per goroutine in bpe: where it stands, len(piece), its
                        \* buffer, whether Get took it from the pool, its result
                        \* slices, and how often it has put a buffer back
    piece,              \* bpe: the chunk being merged
    parts,              \* bpe: the boundary array, a sequence of [offset, rank]
    bpc,                \* bpe: "idle", "loop" (at the head of the merge loop), "done"
    bres                \* bpe: the returned [ids, tokens]

vars == <<vocabulary, reverseVocabulary, input, matches, matchErr, last,
          calls, fatal, partPool, heap, pcalls, model, mpc, mleft, menc, mres,
          cliDecode, cliArgs, cpc, cliFields, cliIds, cliOut,
          piece, parts, bpc, bres>>

NoParts == <<>>
NoResult == [ids |-> <<>>, tokens |-> <<>>]

Threads == 1..RaceThreads
NoRes == [none |-> TRUE]
IdleCall == [pc |-> "idle", op |-> "none", tokens |-> <<>>, text |-> <<>>,
             left |-> {}, i |-> 0, out |-> <<>>, res |-> NoRes]

Callers == 1..PoolCallers
NoBuf == 0
IdlePoolCall == [pc |-> "idle", n |-> 0, buf |-> NoBuf, pooled |-> FALSE,
                 res |-> NoBuf, puts |-> 0]

NoCodec == "none"
NoOutput == [printed |-> <<>>, fatal |-> <<>>]

facadeVars == <<reverseVocabulary, input, matches, matchErr, last>>
poolVars == <<partPool, heap, pcalls>>
raceVars == <<calls, fatal, partPool, heap, pcalls>>
modelVars == <<model, mpc, mleft, menc, mres>>
cliVars == <<cliDecode, cliArgs, cpc, cliFields, cliIds, cliOut>>
bpeVars == <<piece, parts, bpc, bres>>
otherVars == <<modelVars, cliVars>>

\* The parts of the state a specification does not drive stay as they are
\* before any call.
FacadeIdle ==
    /\ reverseVocabulary = Nil
    /\ input = <<>>
    /\ matches = <<>>
    /\ matchErr = -1
    /\ last = NoCall

RaceIdle ==
    /\ calls = [t \in Threads |-> IdleCall]
    /\ fatal = FALSE
    /\ partPool = {}
    /\ heap = <<>>
    /\ pcalls = [g \in Callers |-> IdlePoolCall]

ModelIdle ==
    /\ model = <<>>
    /\ mpc = "idle"
    /\ mleft = {}
    /\ menc = ""
    /\ mres = [codec |-> NoCodec, err |-> NoErr]

CliIdle ==
    /\ cliDecode = <<>>
    /\ cliArgs = <<>>
    /\ cpc = "idle"
    /\ cliFields = <<>>
    /\ cliIds = <<>>
    /\ cliOut = NoOutput

ToolsIdle == ModelIdle /\ CliIdle

BpeIdle ==
    /\ piece = <<>>
    /\ parts = NoParts
    /\ bpc = "idle"
    /\ bres = NoResult

(***************************************************************************)
(* The merge engine, Codec.bpe.                                            *)
(***************************************************************************)
\* getRank(index, skip) of the code, on the current parts (index from 0)
getRank(v, pc, ps, index, skip) ==
    IF index + skip + 2 < Len(ps)
    THEN LET start == ps[index + 1].offset
             end   == ps[index + skip + 2 + 1].offset
             span  == SubSeq(pc, start + 1, end)
         IN  IF span \in DOMAIN v THEN v[span] ELSE MaxUint
    ELSE MaxUint

\* parts after the two initialising loops
InitParts(v, pc) ==
    LET blank == [i \in 1..(Len(pc) + 1) |-> [offset |-> i - 1, rank |-> MaxUint]]
    IN  [i \in 1..(Len(pc) + 1) |->
            IF i - 1 < Len(blank) - 2
            THEN [blank[i] EXCEPT !.rank = getRank(v, pc, blank, i - 1, 0)]
            ELSE blank[i]]

\* the test of the scan: p.rank < minRank
BetterLate(rank, minRank) == rank <= minRank
Better(rank, minRank) == rank < minRank

\* the scan over parts[:len(parts)-1] for the minimum: <<minRank, minIndex>>
RECURSIVE ScanMin(_, _, _, _)
ScanMin(ps, i, minRank, minIndex) ==
    IF i >= Len(ps) - 1 THEN <<minRank, minIndex>>
    ELSE IF Better(ps[i + 1].rank, minRank)
         THEN ScanMin(ps, i + 1, ps[i + 1].rank, i)
         ELSE ScanMin(ps, i + 1, minRank, minIndex)

MinScan(ps) == ScanMin(ps, 0, MaxUint, 0)

\* the loop's two exits
LoopExits(ps) == Len(ps) = 1 \/ MinScan(ps)[1] = MaxUint

\* append(parts[:minIndex+1], parts[minIndex+2:]...): the boundary at goIndex goes
RemoveAtOff(ps, goIndex) ==
    SubSeq(ps, 1, goIndex - 1) \o SubSeq(ps, goIndex + 1, Len(ps))
RemoveAt(ps, goIndex) ==
    SubSeq(ps, 1, goIndex) \o SubSeq(ps, goIndex + 2, Len(ps))

\* the re-scoring of one iteration, before the element is removed
RescoreStale(v, pc, ps, minIndex) ==
    LET p1 == [ps EXCEPT ![minIndex + 1].rank = getRank(v, pc, ps, minIndex, 0)]
    IN  IF minIndex > 0
        THEN [p1 EXCEPT ![minIndex].rank = getRank(v, pc, p1, minIndex - 1, 1)]
        ELSE p1
Rescore(v, pc, ps, minIndex) ==
    LET p1 == [ps EXCEPT ![minIndex + 1].rank = getRank(v, pc, ps, minIndex, 1)]
    IN  IF minIndex > 0
        THEN [p1 EXCEPT ![minIndex].rank = getRank(v, pc, p1, minIndex - 1, 1)]
        ELSE p1

\* one iteration of the merge loop that does not exit
MergeStep(v, pc, ps) ==
    LET minIndex == MinScan(ps)[2]
    IN  RemoveAt(Rescore(v, pc, ps, minIndex), minIndex + 1)

RECURSIVE MergeLoop(_, _, _)
MergeLoop(v, pc, ps) ==
    IF LoopExits(ps) THEN ps ELSE MergeLoop(v, pc, MergeStep(v, pc, ps))

\* the final loop: the ids and tokens of the spans left
EmitShift(v, pc, ps) ==
    LET n == Len(ps) - 1
        token(i) == SubSeq(pc, ps[i].offset + 2, ps[i + 1].offset)
    IN  [ids    |-> [i \in 1..n |-> VocabGet(v, token(i))],
         tokens |-> [i \in 1..n |-> token(i)]]
Emit(v, pc, ps) ==
    LET n == Len(ps) - 1
        token(i) == SubSeq(pc, ps[i].offset + 1, ps[i + 1].offset)
    IN  [ids    |-> [i \in 1..n |-> VocabGet(v, token(i))],
         tokens |-> [i \in 1..n |-> token(i)]]

bpe(v, pc) == Emit(v, pc, MergeLoop(v, pc, InitParts(v, pc)))

(***************************************************************************)
(* The facade: Codec.Encode, Codec.Count, Codec.Decode.  bpe writes every  *)
(* entry of the buffer it works in before reading it, so what it returns   *)
(* does not depend on the pool the buffer came from (SpecPool).            *)
(***************************************************************************)
MatchError == <<"error matching">>

\* one chunk of Encode's loop: the direct lookup, or bpe
EncodeChunk(v, chunk) ==
    IF chunk \in DOMAIN v
    THEN [ids |-> <<v[chunk]>>, tokens |-> <<chunk>>]
    ELSE bpe(v, chunk)

\* Encode's loop from match i on, with the ids and tokens appended so far
RECURSIVE EncodeFrom(_, _, _, _, _)
EncodeFrom(v, ms, errAt, i, acc) ==
    IF i > Len(ms) THEN [ids |-> acc.ids, tokens |-> acc.tokens, err |-> NoErr]
    ELSE LET new  == EncodeChunk(v, ms[i])
             acc2 == [ids |-> acc.ids \o new.ids, tokens |-> acc.tokens \o new.tokens]
         IN  IF errAt = i
             THEN [ids |-> <<>>, tokens |-> <<>>, err |-> MatchError]
             ELSE EncodeFrom(v, ms, errAt, i + 1, acc2)

Encode(v, ms, errAt) ==
    IF errAt = 0
    THEN [ids |-> <<>>, tokens |-> <<>>, err |-> MatchError]
    ELSE EncodeFrom(v, ms, errAt, 1, NoResult)

\* what one chunk adds to Count's counter
CountChunkOff(v, chunk) ==
    IF chunk \in DOMAIN v THEN 1 ELSE Len(chunk)
CountChunk(v, chunk) ==
    IF chunk \in DOMAIN v THEN 1 ELSE Len(bpe(v, chunk).tokens)

RECURSIVE CountFrom(_, _, _, _, _)
CountFrom(v, ms, errAt, i, count) ==
    IF i > Len(ms) THEN [count |-> count, err |-> NoErr]
    ELSE IF errAt = i
         THEN [count |-> 0, err |-> MatchError]
         ELSE CountFrom(v, ms, errAt, i + 1, count + CountChunk(v, ms[i]))

Count(v, ms, errAt) ==
    IF errAt = 0
    THEN [count |-> 0, err |-> MatchError]
    ELSE CountFrom(v, ms, errAt, 1, 0)

\* The reverse maps the lazy build of Decode can leave: the range over
\* c.vocabulary runs in an unspecified order and a later write to the same
\* id replaces the earlier one, so each id keeps any one of its pieces.
RECURSIVE ReverseOver(_, _)
ReverseOver(v, ids) ==
    IF ids = {} THEN {<<>>}
    ELSE LET id == CHOOSE x \in ids : TRUE
         IN  {(id :> p) @@ r : p \in {q \in DOMAIN v : v[q] = id},
                               r \in ReverseOver(v, ids \ {id})}

ReverseMaps(v) == ReverseOver(v, Range(v))

\* Decode's return on an id that has no piece
InvalidTokenPartial(out, t) == [text |-> out, err |-> <<"invalid token", t>>]
InvalidToken(out, t) == [text |-> <<>>, err |-> <<"invalid token", t>>]

\* Decode's loop from token i on
RECURSIVE DecodeFrom(_, _, _, _)
DecodeFrom(rev, tokens, i, out) ==
    IF i > Len(tokens) THEN [text |-> out, err |-> NoErr]
    ELSE IF tokens[i] \notin DOMAIN rev
         THEN InvalidToken(out, tokens[i])
         ELSE DecodeFrom(rev, tokens, i + 1, out \o rev[tokens[i]])

(***************************************************************************)
(* Spec: a Codec, a text and its matches; Encode and Count on the text,    *)
(* and Decode on the ids Encode returned.                                  *)
(***************************************************************************)
Init ==
    /\ vocabulary \in FacadeVocabs
    /\ reverseVocabulary = Nil
    /\ input \in Strings(MaxText)
    /\ matches \in Partitions(input)
    /\ matchErr \in -1..Len(matches)
    /\ last = NoCall
    /\ RaceIdle
    /\ BpeIdle
    /\ ToolsIdle

DoEncode ==
    /\ last.op # "Encode"
    /\ LET r == Encode(vocabulary, matches, matchErr)
       IN  last' = [op |-> "Encode", ids |-> r.ids, tokens |-> r.tokens, err |-> r.err]
    /\ UNCHANGED <<vocabulary, reverseVocabulary, input, matches, matchErr, raceVars, bpeVars, otherVars>>

DoCount ==
    /\ last.op # "Count"
    /\ LET r == Count(vocabulary, matches, matchErr)
       IN  last' = [op |-> "Count", count |-> r.count, err |-> r.err]
    /\ UNCHANGED <<vocabulary, reverseVocabulary, input, matches, matchErr, raceVars, bpeVars, otherVars>>

\* Decode(tokens): the lazy build of the reverse map, then the loop
Decode(tokens) ==
    /\ \E rev \in (IF reverseVocabulary.isNil THEN ReverseMaps(vocabulary)
                    ELSE {reverseVocabulary.map}) :
          /\ reverseVocabulary' = Map(rev)
          /\ LET r == DecodeFrom(rev, tokens, 1, <<>>)
             IN  last' = [op |-> "Decode", arg |-> tokens, text |-> r.text, err |-> r.err]
    /\ UNCHANGED <<vocabulary, input, matches, matchErr, raceVars, bpeVars, otherVars>>

\* the README's use: Decode on the ids Encode returned
DoDecodeEncoded ==
    /\ last.op = "Encode"
    /\ last.err = NoErr
    /\ Decode(last.ids)

Next == DoEncode \/ DoCount \/ DoDecodeEncoded

Spec == Init /\ [][Next]_vars

\* C1: on a codec whose vocabulary is injective and holds every single byte,
\* and whose matches partition the text, Encode succeeds and Decode of the
\* ids Encode returned succeeds and returns the text; the empty text gives
\* no ids and decodes to the empty text.
C1_RoundTrip ==
    (Injective(vocabulary) /\ ByteComplete(vocabulary)
        /\ Concat(matches) = input /\ matchErr = -1) =>
        /\ last.op = "Encode" =>
              /\ last.err = NoErr
              /\ input = <<>> => last.ids = <<>>
        /\ (last.op = "Decode"
              /\ last.arg = Encode(vocabulary, matches, matchErr).ids) =>
              /\ last.err = NoErr
              /\ last.text = input

\* a round trip of a three-byte chunk that bpe merged into two pieces
C1_Witness ==
    /\ Injective(vocabulary) /\ ByteComplete(vocabulary) /\ matchErr = -1
    /\ last.op = "Decode"
    /\ Len(matches) = 1
    /\ Len(input) = 3
    /\ Len(last.arg) = 2
    /\ last.text = input

\* C2: Count returns the number of ids (and of pieces) Encode returns for
\* the same text, for every vocabulary, and fails with the matching error
\* exactly when Encode does.
C2_CountConsistency ==
    last.op = "Count" =>
        LET e == Encode(vocabulary, matches, matchErr)
        IN  /\ last.err = e.err
            /\ e.err = NoErr =>
                  /\ last.count = Len(e.ids)
                  /\ last.count = Len(e.tokens)

\* a count over a chunk found in the vocabulary and a chunk bpe had to split
C2_Witness ==
    /\ last.op = "Count"
    /\ last.err = NoErr
    /\ \E i, j \in 1..Len(matches) :
          /\ matches[i] \in DOMAIN vocabulary
          /\ matches[j] \notin DOMAIN vocabulary
          /\ Len(bpe(vocabulary, matches[j]).ids) >= 2
    /\ last.count >= 3

\* what bpe owes for one chunk: pieces that concatenate to the chunk, as
\* many ids as pieces, each id the vocabulary's entry for its piece
BpeReconstructs(v, chunk) ==
    LET r == bpe(v, chunk)
    IN  /\ Concat(r.tokens) = chunk
        /\ Len(r.ids) = Len(r.tokens)
        /\ \A i \in 1..Len(r.tokens) :
              /\ r.ids[i] = VocabGet(v, r.tokens[i])
              /\ HasBytesOf(v, chunk) => r.tokens[i] \in DOMAIN v

\* C3: the pieces bpe returns for a chunk concatenate to the chunk and pair
\* with the ids by position; the pieces Encode returns concatenate to the
\* text, the pieces of each chunk in the place of the chunk.
C3_PieceReconstruction ==
    /\ \A k \in 1..Len(matches) :
          matches[k] \notin DOMAIN vocabulary => BpeReconstructs(vocabulary, matches[k])
    /\ (last.op = "Encode" /\ last.err = NoErr /\ Concat(matches) = input) =>
          /\ Concat(last.tokens) = input
          /\ Len(last.ids) = Len(last.tokens)
          /\ \A i \in 1..Len(last.tokens) :
                last.ids[i] = VocabGet(vocabulary, last.tokens[i])
          /\ \A k \in 0..Len(matches) :
                \E n \in 0..Len(last.tokens) :
                   Concat(SubSeq(last.tokens, 1, n)) = Concat(SubSeq(matches, 1, k))

\* an Encode of two chunks, the second one split by bpe
C3_Witness ==
    /\ last.op = "Encode"
    /\ last.err = NoErr
    /\ Len(matches) = 2
    /\ matches[2] \notin DOMAIN vocabulary
    /\ Len(matches[2]) = 2
    /\ Len(last.tokens) = 3

(***************************************************************************)
(* SpecDecode: a Codec and Decode calls on arbitrary id lists.             *)
(***************************************************************************)
\* one more than the largest rank of any vocabulary of the family
MaxId == Len(ByteOrder) + MaxMulti

IdLists == UNION {[1..k -> 0..MaxId] : k \in 0..MaxIds}

InitDecode ==
    /\ vocabulary \in FacadeVocabs
    /\ FacadeIdle
    /\ RaceIdle
    /\ BpeIdle
    /\ ToolsIdle

DoDecode == \E tokens \in IdLists : Decode(tokens)

NextDecode == DoDecode

SpecDecode == InitDecode /\ [][NextDecode]_vars

IdMax(v) == CHOOSE r \in Range(v) : \A q \in Range(v) : q <= r

\* C4: Decode fails on the first id that has no piece, naming it and
\* returning the empty text; otherwise it returns the concatenation, in
\* order, of pieces whose ranks are the ids.  Decode([idMax+1]) fails.
C4_DecodeFailFast ==
    last.op = "Decode" =>
        LET ids == last.arg
            bad == {i \in 1..Len(ids) : ids[i] \notin Range(vocabulary)}
        IN  /\ bad # {} =>
                  /\ last.err = <<"invalid token", ids[CHOOSE i \in bad : \A j \in bad : i <= j]>>
                  /\ last.text = <<>>
            /\ bad = {} =>
                  /\ last.err = NoErr
                  /\ \E ps \in [1..Len(ids) -> DOMAIN vocabulary] :
                        /\ \A i \in 1..Len(ids) : vocabulary[ps[i]] = ids[i]
                        /\ last.text = Concat(ps)
            /\ ids = <<IdMax(vocabulary) + 1>> => last.err # NoErr

\* a Decode that resolved its first id and failed on the second
C4_Witness ==
    /\ last.op = "Decode"
    /\ Len(last.arg) = 2
    /\ last.arg[1] \in Range(vocabulary)
    /\ last.arg[2] = IdMax(vocabulary) + 1
    /\ last.err = <<"invalid token", last.arg[2]>>

(***************************************************************************)
(* SpecRace: goroutines calling Encode, Count and Decode on one Codec at   *)
(* once.  Encode and Count read only c.vocabulary and are taken in one     *)
(* step.  Decode is taken a statement at a time: the nil test, the make,   *)
(* each write of the filling loop (the field c.reverseVocabulary is read   *)
(* again at every write) and each lookup of the decoding loop.  The field  *)
(* and the map are read and written without synchronisation; besides the   *)
(* interleavings of the statements, the Go runtime may abort the program   *)
(* when it sees a map written while another goroutine reads or writes it.  *)
(***************************************************************************)
RaceVocabs == {MkVocab("plain", <<>>), ToyVocab}

RaceIdLists == {l \in IdLists : Len(l) <= 1}

InitRace ==
    /\ vocabulary \in RaceVocabs
    /\ FacadeIdle
    /\ RaceIdle
    /\ BpeIdle
    /\ ToolsIdle

SetCall(t, c) == calls' = [calls EXCEPT ![t] = c]

\* a goroutine runs Encode on a text that is one match
RaceEncode(t) ==
    /\ ~fatal
    /\ calls[t].pc = "idle"
    /\ \E text \in Strings(1) \ {<<>>} :
          SetCall(t, [calls[t] EXCEPT !.pc = "done", !.op = "Encode", !.text = text,
                                      !.res = Encode(vocabulary, <<text>>, -1)])
    /\ UNCHANGED <<vocabulary, facadeVars, fatal, poolVars, bpeVars, otherVars>>

\* a goroutine runs Count on a text that is one match
RaceCount(t) ==
    /\ ~fatal
    /\ calls[t].pc = "idle"
    /\ \E text \in Strings(1) \ {<<>>} :
          SetCall(t, [calls[t] EXCEPT !.pc = "done", !.op = "Count", !.text = text,
                                      !.res = Count(vocabulary, <<text>>, -1)])
    /\ UNCHANGED <<vocabulary, facadeVars, fatal, poolVars, bpeVars, otherVars>>

\* a goroutine enters Decode
RaceDecodeCall(t) ==
    /\ ~fatal
    /\ calls[t].pc = "idle"
    /\ \E tokens \in RaceIdLists :
          SetCall(t, [calls[t] EXCEPT !.pc = "check", !.op = "Decode", !.tokens = tokens])
    /\ UNCHANGED <<vocabulary, facadeVars, fatal, poolVars, bpeVars, otherVars>>

\* if c.reverseVocabulary == nil
RaceCheckNil(t) ==
    /\ ~fatal
    /\ calls[t].pc = "check"
    /\ SetCall(t, [calls[t] EXCEPT !.pc = IF reverseVocabulary.isNil THEN "make" ELSE "loop",
                                    !.i = 1])
    /\ UNCHANGED <<vocabulary, facadeVars, fatal, poolVars, bpeVars, otherVars>>

\* c.reverseVocabulary = make(map[uint]string), and the range loop is set up
RaceMake(t) ==
    /\ ~fatal
    /\ calls[t].pc = "make"
    /\ reverseVocabulary' = Map(<<>>)
    /\ SetCall(t, [calls[t] EXCEPT !.pc = "fill", !.left = DOMAIN vocabulary])
    /\ UNCHANGED <<vocabulary, input, matches, matchErr, last, fatal, poolVars, bpeVars, otherVars>>

\* c.reverseVocabulary[v] = k for the next k of the range, in any order
RaceFill(t) ==
    /\ ~fatal
    /\ calls[t].pc = "fill"
    /\ calls[t].left # {}
    /\ \E k \in calls[t].left :
          /\ reverseVocabulary' =
                Map([id \in DOMAIN reverseVocabulary.map \cup {vocabulary[k]} |->
                        IF id = vocabulary[k] THEN k ELSE reverseVocabulary.map[id]])
          /\ SetCall(t, [calls[t] EXCEPT !.left = @ \ {k}])
    /\ UNCHANGED <<vocabulary, input, matches, matchErr, last, fatal, poolVars, bpeVars, otherVars>>

\* the range loop ends
RaceFillEnd(t) ==
    /\ ~fatal
    /\ calls[t].pc = "fill"
    /\ calls[t].left = {}
    /\ SetCall(t, [calls[t] EXCEPT !.pc = "loop"])
    /\ UNCHANGED <<vocabulary, facadeVars, fatal, poolVars, bpeVars, otherVars>>

\* one iteration of the decoding loop, or the return after it
RaceLookup(t) ==
    /\ ~fatal
    /\ calls[t].pc = "loop"
    /\ LET c == calls[t]
           rev == reverseVocabulary.map
       IN  IF c.i > Len(c.tokens)
           THEN SetCall(t, [c EXCEPT !.pc = "done", !.res = [text |-> c.out, err |-> NoErr]])
           ELSE IF c.tokens[c.i] \notin DOMAIN rev
                THEN SetCall(t, [c EXCEPT !.pc = "done",
                                          !.res = InvalidToken(c.out, c.tokens[c.i])])
                ELSE SetCall(t, [c EXCEPT !.i = @ + 1, !.out = @ \o rev[c.tokens[c.i]]])
    /\ UNCHANGED <<vocabulary, facadeVars, fatal, poolVars, bpeVars, otherVars>>

\* the runtime's "concurrent map writes" / "concurrent map read and map
\* write": a goroutine is writing the map and another is using it
RaceAbort(t) ==
    /\ ~fatal
    /\ calls[t].pc = "fill"
    /\ calls[t].left # {}
    /\ \E u \in Threads \ {t} : calls[u].pc \in {"fill", "loop"}
    /\ fatal' = TRUE
    /\ UNCHANGED <<vocabulary, facadeVars, calls, poolVars, bpeVars, otherVars>>

NextRace ==
    \E t \in Threads :
        \/ RaceEncode(t)
        \/ RaceCount(t)
        \/ RaceDecodeCall(t)
        \/ RaceCheckNil(t)
        \/ RaceMake(t)
        \/ RaceFill(t)
        \/ RaceFillEnd(t)
        \/ RaceLookup(t)
        \/ RaceAbort(t)

SpecRace == InitRace /\ [][NextRace]_vars

\* what a call returns when it runs alone on the Codec
AloneResults(c) ==
    CASE c.op = "Encode" -> {Encode(vocabulary, <<c.text>>, -1)}
      [] c.op = "Count"  -> {Count(vocabulary, <<c.text>>, -1)}
      [] c.op = "Decode" ->
            {DecodeFrom(r, c.tokens, 1, <<>>) : r \in ReverseMaps(vocabulary)}

\* C5: in every interleaving of concurrent Encode, Count and Decode calls
\* on one Codec, the first Decode calls included, each call returns what
\* it returns when run alone, and no call uses the reverse-lookup table
\* while another call is populating it.
C5_ConcurrentUseSafe ==
    /\ ~fatal
    /\ \A t \in Threads : calls[t].pc = "done" => calls[t].res \in AloneResults(calls[t])
    /\ \A t, u \in Threads :
          (t # u /\ calls[t].pc = "fill") => calls[u].pc \notin {"fill", "loop"}

(***************************************************************************)
(* SpecPool: goroutines inside bpe at once, and the buffers they take from *)
(* and put back to partPool.  Only the length of the chunk and the         *)
(* identity and capacity of each slice matter here.  A sync.Pool hands an  *)
(* item to one Get only, and may ignore what it holds and call New.        *)
(***************************************************************************)
\* cap of the slice partPool.New makes
PoolNewCap == 128
\* the largest cap the deferred function puts back
PoolKeepCap == 1024

\* the chunk lengths tried: one that fits the slice New makes, one that
\* needs a larger slice which is put back, one whose slice is not put back
PieceLens == {PoolNewCap - 1, PoolNewCap, PoolKeepCap}

InitPool ==
    /\ vocabulary = ToyVocab
    /\ FacadeIdle
    /\ RaceIdle
    /\ BpeIdle
    /\ ToolsIdle

Alloc(kind, cap) == heap' = Append(heap, [kind |-> kind, cap |-> cap])

SetPoolCall(g, c) == pcalls' = [pcalls EXCEPT ![g] = c]

\* partPool.Get(): an item of the pool, which leaves the pool
TakeShared(b) == partPool
Take(b) == partPool \ {b}

\* parts := partPool.Get().([]part) on entry to bpe
PoolGet(g) ==
    /\ pcalls[g].pc = "idle"
    /\ \E n \in PieceLens :
          \/ \E b \in partPool :
                /\ partPool' = Take(b)
                /\ SetPoolCall(g, [pcalls[g] EXCEPT !.pc = "size", !.n = n, !.buf = b,
                                                    !.pooled = TRUE,
                                                    !.res = NoBuf, !.puts = 0])
                /\ UNCHANGED heap
          \/ /\ Len(heap) < MaxAllocs
             /\ Alloc("parts", PoolNewCap)
             /\ SetPoolCall(g, [pcalls[g] EXCEPT !.pc = "size", !.n = n,
                                                 !.buf = Len(heap) + 1,
                                                 !.pooled = FALSE,
                                                 !.res = NoBuf, !.puts = 0])
             /\ UNCHANGED partPool
    /\ UNCHANGED <<vocabulary, facadeVars, calls, fatal, bpeVars, otherVars>>

\* if cap(parts) < len(piece)+1 { parts = make(...) }; parts = parts[:len(piece)+1]
PoolSize(g) ==
    /\ pcalls[g].pc = "size"
    /\ \/ /\ heap[pcalls[g].buf].cap < pcalls[g].n + 1
          /\ Len(heap) < MaxAllocs
          /\ Alloc("parts", pcalls[g].n + 1)
          /\ SetPoolCall(g, [pcalls[g] EXCEPT !.pc = "work", !.buf = Len(heap) + 1])
       \/ /\ heap[pcalls[g].buf].cap >= pcalls[g].n + 1
          /\ SetPoolCall(g, [pcalls[g] EXCEPT !.pc = "work"])
          /\ UNCHANGED heap
    /\ UNCHANGED <<vocabulary, facadeVars, calls, fatal, partPool, bpeVars, otherVars>>

\* the initialising loops and the merge loop, all on parts
PoolWork(g) ==
    /\ pcalls[g].pc = "work"
    /\ SetPoolCall(g, [pcalls[g] EXCEPT !.pc = "emit"])
    /\ UNCHANGED <<vocabulary, facadeVars, calls, fatal, partPool, heap, bpeVars, otherVars>>

\* ids and tokens are made afresh and filled from parts and piece
PoolEmit(g) ==
    /\ pcalls[g].pc = "emit"
    /\ Len(heap) < MaxAllocs
    /\ Alloc("result", pcalls[g].n)
    /\ SetPoolCall(g, [pcalls[g] EXCEPT !.pc = "return", !.res = Len(heap) + 1])
    /\ UNCHANGED <<vocabulary, facadeVars, calls, fatal, partPool, bpeVars, otherVars>>

\* the deferred function, run as bpe returns
PoolPut(g) ==
    /\ pcalls[g].pc = "return"
    /\ \/ /\ heap[pcalls[g].buf].cap <= PoolKeepCap
          /\ partPool' = partPool \cup {pcalls[g].buf}
          /\ SetPoolCall(g, [pcalls[g] EXCEPT !.pc = "idle", !.buf = NoBuf, !.puts = @ + 1])
       \/ /\ heap[pcalls[g].buf].cap > PoolKeepCap
          /\ SetPoolCall(g, [pcalls[g] EXCEPT !.pc = "idle", !.buf = NoBuf])
          /\ UNCHANGED partPool
    /\ UNCHANGED <<vocabulary, facadeVars, calls, fatal, heap, bpeVars, otherVars>>

NextPool ==
    \E g \in Callers :
        PoolGet(g) \/ PoolSize(g) \/ PoolWork(g) \/ PoolEmit(g) \/ PoolPut(g)

SpecPool == InitPool /\ [][NextPool]_vars

InFlight(g) == pcalls[g].pc \in {"size", "work", "emit", "return"}

\* C10: no buffer is in use by two in-flight bpe calls at once, nor lies in
\* the pool while a call uses it; a call puts its buffer back at most once
\* and only after its results are computed; the results are slices of
\* their own; a buffer made because the pooled one was too small is held
\* by its maker alone.
C10_BufferExclusive ==
    /\ \A g, h \in Callers :
          (g # h /\ InFlight(g) /\ InFlight(h)) => pcalls[g].buf # pcalls[h].buf
    /\ \A g \in Callers :
          /\ InFlight(g) =>
                /\ pcalls[g].buf \in 1..Len(heap)
                /\ heap[pcalls[g].buf].kind = "parts"
                /\ heap[pcalls[g].buf].cap >= pcalls[g].n + 1 \/ pcalls[g].pc = "size"
                /\ pcalls[g].buf \notin partPool
                /\ pcalls[g].puts = 0
          /\ pcalls[g].puts <= 1
          /\ pcalls[g].puts = 1 => pcalls[g].res # NoBuf
          /\ pcalls[g].res # NoBuf =>
                /\ heap[pcalls[g].res].kind = "result"
                /\ pcalls[g].res \notin partPool
                /\ \A h \in Callers : pcalls[h].buf # pcalls[g].res
    /\ \A b \in partPool : heap[b].kind = "parts" /\ heap[b].cap <= PoolKeepCap

\* a call works in a buffer another call put back, while a second call is
\* in flight with a buffer made because the pooled one was too small
C10_Witness ==
    \E g, h \in Callers :
        /\ g # h
        /\ pcalls[g].pc = "emit"
        /\ pcalls[g].pooled
        /\ pcalls[h].pc = "work"
        /\ pcalls[h].pooled
        /\ heap[pcalls[h].buf].cap > PoolNewCap

(***************************************************************************)
(* Model-name resolution: EncodingForModel, ForModel and Get.  A model     *)
(* name is a sequence of one-character strings, so that strings.HasPrefix  *)
(* is computed on its characters.                                          *)
(***************************************************************************)
\* modelPrefixToEncoding
ModelPrefixToEncoding ==
       <<"g", "p", "t", "-", "4", "-">> :> "cl100k_base"
    @@ <<"g", "p", "t", "-", "3", ".", "5", "-", "t", "u", "r", "b", "o", "-">> :> "cl100k_base"
    @@ <<"g", "p", "t", "-", "3", "5", "-", "t", "u", "r", "b", "o", "-">> :> "cl100k_base"
    @@ <<"f", "t", ":", "g", "p", "t", "-", "4">> :> "cl100k_base"
    @@ <<"f", "t", ":", "g", "p", "t", "-", "3", ".", "5", "-", "t", "u", "r", "b", "o">> :> "cl100k_base"
    @@ <<"f", "t", ":", "d", "a", "v", "i", "n", "c", "i", "-", "0", "0", "2">> :> "cl100k_base"
    @@ <<"f", "t", ":", "b", "a", "b", "b", "a", "g", "e", "-", "0", "0", "2">> :> "cl100k_base"

\* modelToEncoding
ModelToEncoding ==
       <<"g", "p", "t", "-", "4">> :> "cl100k_base"
    @@ <<"g", "p", "t", "-", "3", ".", "5", "-", "t", "u", "r", "b", "o">> :> "cl100k_base"
    @@ <<"g", "p", "t", "-", "3", "5", "-", "t", "u", "r", "b", "o">> :> "cl100k_base"
    @@ <<"d", "a", "v", "i", "n", "c", "i", "-", "0", "0", "2">> :> "cl100k_base"
    @@ <<"b", "a", "b", "b", "a", "g", "e", "-", "0", "0", "2">> :> "cl100k_base"
    @@ <<"t", "e", "x", "t", "-", "e", "m", "b", "e", "d", "d", "i", "n", "g", "-", "a", "d", "a", "-", "0", "0", "2">> :> "cl100k_base"
    @@ <<"t", "e", "x", "t", "-", "d", "a", "v", "i", "n", "c", "i", "-", "0", "0", "3">> :> "p50k_base"
    @@ <<"t", "e", "x", "t", "-", "d", "a", "v", "i", "n", "c", "i", "-", "0", "0", "2">> :> "p50k_base"
    @@ <<"t", "e", "x", "t", "-", "d", "a", "v", "i", "n", "c", "i", "-", "0", "0", "1">> :> "r50k_base"
    @@ <<"t", "e", "x", "t", "-", "c", "u", "r", "i", "e", "-", "0", "0", "1">> :> "r50k_base"
    @@ <<"t", "e", "x", "t", "-", "b", "a", "b", "b", "a", "g", "e", "-", "0", "0", "1">> :> "r50k_base"
    @@ <<"t", "e", "x", "t", "-", "a", "d", "a", "-", "0", "0", "1">> :> "r50k_base"
    @@ <<"d", "a", "v", "i", "n", "c", "i">> :> "r50k_base"
    @@ <<"c", "u", "r", "i", "e">> :> "r50k_base"
    @@ <<"b", "a", "b", "b", "a", "g", "e">> :> "r50k_base"
    @@ <<"a", "d", "a">> :> "r50k_base"
    @@ <<"c", "o", "d", "e", "-", "d", "a", "v", "i", "n", "c", "i", "-", "0", "0", "2">> :> "p50k_base"
    @@ <<"c", "o", "d", "e", "-", "d", "a", "v", "i", "n", "c", "i", "-", "0", "0", "1">> :> "p50k_base"
    @@ <<"c", "o", "d", "e", "-", "c", "u", "s", "h", "m", "a", "n", "-", "0", "0", "2">> :> "p50k_base"
    @@ <<"c", "o", "d", "e", "-", "c", "u", "s", "h", "m", "a", "n", "-", "0", "0", "1">> :> "p50k_base"
    @@ <<"d", "a", "v", "i", "n", "c", "i", "-", "c", "o", "d", "e", "x">> :> "p50k_base"
    @@ <<"c", "u", "s", "h", "m", "a", "n", "-", "c", "o", "d", "e", "x">> :> "p50k_base"
    @@ <<"t", "e", "x", "t", "-", "d", "a", "v", "i", "n", "c", "i", "-", "e", "d", "i", "t", "-", "0", "0", "1">> :> "p50k_edit"
    @@ <<"c", "o", "d", "e", "-", "d", "a", "v", "i", "n", "c", "i", "-", "e", "d", "i", "t", "-", "0", "0", "1">> :> "p50k_edit"
    @@ <<"t", "e", "x", "t", "-", "s", "i", "m", "i", "l", "a", "r", "i", "t", "y", "-", "d", "a", "v", "i", "n", "c", "i", "-", "0", "0", "1">> :> "r50k_base"
    @@ <<"t", "e", "x", "t", "-", "s", "i", "m", "i", "l", "a", "r", "i", "t", "y", "-", "c", "u", "r", "i", "e", "-", "0", "0", "1">> :> "r50k_base"
    @@ <<"t", "e", "x", "t", "-", "s", "i", "m", "i", "l", "a", "r", "i", "t", "y", "-", "b", "a", "b", "b", "a", "g", "e", "-", "0", "0", "1">> :> "r50k_base"
    @@ <<"t", "e", "x", "t", "-", "s", "i", "m", "i", "l", "a", "r", "i", "t", "y", "-", "a", "d", "a", "-", "0", "0", "1">> :> "r50k_base"
    @@ <<"t", "e", "x", "t", "-", "s", "e", "a", "r", "c", "h", "-", "d", "a", "v", "i", "n", "c", "i", "-", "d", "o", "c", "-", "0", "0", "1">> :> "r50k_base"
    @@ <<"t", "e", "x", "t", "-", "s", "e", "a", "r", "c", "h", "-", "c", "u", "r", "i", "e", "-", "d", "o", "c", "-", "0", "0", "1">> :> "r50k_base"
    @@ <<"t", "e", "x", "t", "-", "s", "e", "a", "r", "c", "h", "-", "b", "a", "b", "b", "a", "g", "e", "-", "d", "o", "c", "-", "0", "0", "1">> :> "r50k_base"
    @@ <<"t", "e", "x", "t", "-", "s", "e", "a", "r", "c", "h", "-", "a", "d", "a", "-", "d", "o", "c", "-", "0", "0", "1">> :> "r50k_base"
    @@ <<"c", "o", "d", "e", "-", "s", "e", "a", "r", "c", "h", "-", "b", "a", "b", "b", "a", "g", "e", "-", "c", "o", "d", "e", "-", "0", "0", "1">> :> "r50k_base"
    @@ <<"c", "o", "d", "e", "-", "s", "e", "a", "r", "c", "h", "-", "a", "d", "a", "-", "c", "o", "d", "e", "-", "0", "0", "1">> :> "r50k_base"
    @@ <<"g", "p", "t", "2">> :> "gpt2"

ErrModelNotSupported == <<"model not supported">>
ErrEncodingNotSupported == <<"encoding not supported">>

\* strings.HasPrefix(s, prefix)
HasPrefixSwapped(s, prefix) ==
    Len(s) <= Len(prefix) /\ SubSeq(prefix, 1, Len(s)) = s
HasPrefix(s, prefix) ==
    Len(s) >= Len(prefix) /\ SubSeq(s, 1, Len(prefix)) = prefix

\* Get(encoding): the codec of the encoding, named after it, or the error
Get(encoding) ==
    IF encoding \in {"cl100k_base", "r50k_base", "p50k_base", "p50k_edit"}
    THEN [codec |-> encoding, err |-> NoErr]
    ELSE [codec |-> NoCodec, err |-> ErrEncodingNotSupported]

(***************************************************************************)
(* SpecModel: one ForModel call.  The range over modelPrefixToEncoding     *)
(* visits the prefixes in an unspecified order, one per step.              *)
(***************************************************************************)
SuffixChars == {"-", "0", ":"}

KnownNames == DOMAIN ModelToEncoding \cup DOMAIN ModelPrefixToEncoding

\* the names tried: the known names and prefixes, each with a short suffix
\* and cut short at every length
ModelNames ==
    {b \o sfx : b \in KnownNames,
                sfx \in UNION {[1..k -> SuffixChars] : k \in 0..MaxSuffix}}
    \cup UNION {{SubSeq(b, 1, n) : n \in 0..Len(b)} : b \in KnownNames}

InitModel ==
    /\ vocabulary = ToyVocab
    /\ FacadeIdle
    /\ RaceIdle
    /\ BpeIdle
    /\ CliIdle
    /\ model \in ModelNames
    /\ mpc = "start"
    /\ mleft = {}
    /\ menc = ""
    /\ mres = [codec |-> NoCodec, err |-> NoErr]

modelRest == <<vocabulary, facadeVars, raceVars, bpeVars, cliVars>>

\* if encoding, ok := modelToEncoding[model]; ok
ExactLookup ==
    /\ mpc = "start"
    /\ \/ /\ model \in DOMAIN ModelToEncoding
          /\ menc' = ModelToEncoding[model]
          /\ mpc' = "get"
          /\ UNCHANGED mleft
       \/ /\ model \notin DOMAIN ModelToEncoding
          /\ mleft' = DOMAIN ModelPrefixToEncoding
          /\ mpc' = "prefix"
          /\ UNCHANGED menc
    /\ UNCHANGED <<model, mres, modelRest>>

\* one iteration of the range over modelPrefixToEncoding
PrefixStep ==
    /\ mpc = "prefix"
    /\ \E prefix \in mleft :
          \/ /\ HasPrefix(model, prefix)
             /\ menc' = ModelPrefixToEncoding[prefix]
             /\ mpc' = "get"
             /\ UNCHANGED mleft
          \/ /\ ~HasPrefix(model, prefix)
             /\ mleft' = mleft \ {prefix}
             /\ UNCHANGED <<menc, mpc>>
    /\ UNCHANGED <<model, mres, modelRest>>

\* the range ends: EncodingForModel and ForModel return ErrModelNotSupported
PrefixEnd ==
    /\ mpc = "prefix"
    /\ mleft = {}
    /\ mres' = [codec |-> NoCodec, err |-> ErrModelNotSupported]
    /\ mpc' = "done"
    /\ UNCHANGED <<model, mleft, menc, modelRest>>

\* return Get(enc)
GetCodec ==
    /\ mpc = "get"
    /\ mres' = Get(menc)
    /\ mpc' = "done"
    /\ UNCHANGED <<model, mleft, menc, modelRest>>

NextModel == ExactLookup \/ PrefixStep \/ PrefixEnd \/ GetCodec

SpecModel == InitModel /\ [][NextModel]_vars

IsKnownModel(m) == m \in DOMAIN ModelToEncoding

HasKnownPrefix(m) ==
    \E prefix \in DOMAIN ModelPrefixToEncoding :
        Len(m) >= Len(prefix) /\ \A i \in 1..Len(prefix) : m[i] = prefix[i]

Gpt2 == <<"g", "p", "t", "2">>

\* C6 as stated: ForModel returns a codec for every name that is a key of
\* the known-model table or starts with a known prefix, and fails with
\* ErrModelNotSupported exactly when the name matches neither.
C6_AsStated ==
    mpc = "done" =>
        /\ (IsKnownModel(model) \/ HasKnownPrefix(model)) =>
              mres.err = NoErr /\ mres.codec # NoCodec
        /\ (~IsKnownModel(model) /\ ~HasKnownPrefix(model)) =>
              mres.err = ErrModelNotSupported
        /\ mres.err # NoErr => mres.err = ErrModelNotSupported

\* C6, amended: ForModel returns the codec of the name's encoding for every
\* key of the known-model table but "gpt2" (the exact entry deciding) and
\* for every other name that starts with a known prefix, whatever the
\* order in which the prefixes are visited; for "gpt2" it fails with
\* ErrEncodingNotSupported; it fails with ErrModelNotSupported exactly
\* when the name is no key and starts with no known prefix.
C6_ModelResolution ==
    mpc = "done" =>
        /\ (IsKnownModel(model) /\ model # Gpt2) =>
              mres = [codec |-> ModelToEncoding[model], err |-> NoErr]
        /\ (~IsKnownModel(model) /\ HasKnownPrefix(model)) =>
              mres = [codec |-> "cl100k_base", err |-> NoErr]
        /\ model = Gpt2 =>
              mres = [codec |-> NoCodec, err |-> ErrEncodingNotSupported]
        /\ mres.err = ErrModelNotSupported <=>
              (~IsKnownModel(model) /\ ~HasKnownPrefix(model))

\* a name resolved by its prefix after the range loop passed over prefixes
\* that do not match
C6_Witness ==
    /\ mpc = "done"
    /\ ~IsKnownModel(model)
    /\ mres.err = NoErr
    /\ Cardinality(mleft) <= 2

(***************************************************************************)
(* The command-line tool's decode path: main and decodeInput.  Strings are *)
(* sequences of one-character strings.                                     *)
(***************************************************************************)
\* strings.Join(elems, " ")
RECURSIVE Join(_)
Join(elems) ==
    IF elems = <<>> THEN <<>>
    ELSE IF Len(elems) = 1 THEN elems[1]
    ELSE elems[1] \o <<" ">> \o Join(Tail(elems))

\* strings.Split(s, " "): the fields around every space, empty ones kept
RECURSIVE SplitFrom(_, _)
SplitFrom(s, cur) ==
    IF s = <<>> THEN <<cur>>
    ELSE IF Head(s) = " " THEN <<cur>> \o SplitFrom(Tail(s), <<>>)
    ELSE SplitFrom(Tail(s), Append(cur, Head(s)))

Split(s) == SplitFrom(s, <<>>)

Digits == {"0", "1", "2", "3", "4", "5", "6", "7", "8", "9"}

DigitValue(d) ==
    CASE d = "0" -> 0 [] d = "1" -> 1 [] d = "2" -> 2 [] d = "3" -> 3 [] d = "4" -> 4
      [] d = "5" -> 5 [] d = "6" -> 6 [] d = "7" -> 7 [] d = "8" -> 8 [] d = "9" -> 9

RECURSIVE DecimalValue(_, _)
DecimalValue(ds, acc) ==
    IF ds = <<>> THEN acc ELSE DecimalValue(Tail(ds), acc * 10 + DigitValue(Head(ds)))

\* strconv.Atoi(t): an optional sign, then one digit or more
Atoi(t) ==
    LET signed == t # <<>> /\ Head(t) \in {"+", "-"}
        ds     == IF signed THEN Tail(t) ELSE t
    IN  IF ds = <<>> \/ \E i \in 1..Len(ds) : ds[i] \notin Digits
        THEN [ok |-> FALSE, val |-> 0]
        ELSE [ok |-> TRUE,
              val |-> IF signed /\ Head(t) = "-" THEN 0 - DecimalValue(ds, 0)
                      ELSE DecimalValue(ds, 0)]

\* uint(id): a negative int wraps around
ToUint(x) == IF x < 0 THEN (MaxUint + x) + 1 ELSE x

\* decodeInput's loop over the fields: the ids, or the field log.Fatalf names
RECURSIVE ParseIds(_, _)
ParseIds(fields, ids) ==
    IF fields = <<>> THEN [ok |-> TRUE, ids |-> ids, bad |-> <<>>]
    ELSE LET a == Atoi(Head(fields))
         IN  IF ~a.ok THEN [ok |-> FALSE, ids |-> ids, bad |-> Head(fields)]
             ELSE ParseIds(Tail(fields), Append(ids, ToUint(a.val)))

\* the string main hands to decodeInput
DecodeArgument(decode, args) == decode \o <<" ">> \o Join(args)

(***************************************************************************)
(* SpecCli: one run of the command with -decode, on the codec of ToyVocab. *)
(***************************************************************************)
DecodeChars == {"0", "3", "7", " ", "x", "-"}
ArgChars == {"0", "3", "7", "x"}

InitCli ==
    /\ vocabulary = ToyVocab
    /\ FacadeIdle
    /\ RaceIdle
    /\ BpeIdle
    /\ ModelIdle
    /\ cliDecode \in UNION {[1..k -> DecodeChars] : k \in 1..MaxDecodeLen}
    /\ cliArgs \in UNION {[1..k -> UNION {[1..n -> ArgChars] : n \in 0..1}] : k \in 0..MaxArgs}
    /\ cpc = "start"
    /\ cliFields = <<>>
    /\ cliIds = <<>>
    /\ cliOut = NoOutput

cliRest == <<vocabulary, input, matches, matchErr, last, raceVars, bpeVars, modelVars>>

\* main's call of decodeInput, and the strings.Split that opens its loop
CliSplit ==
    /\ cpc = "start"
    /\ cliFields' = Split(DecodeArgument(cliDecode, cliArgs))
    /\ cpc' = "parse"
    /\ UNCHANGED <<cliDecode, cliArgs, cliIds, cliOut, reverseVocabulary, cliRest>>

\* the loop of strconv.Atoi over the fields
CliParse ==
    /\ cpc = "parse"
    /\ LET r == ParseIds(cliFields, <<>>)
       IN  \/ /\ r.ok
              /\ cliIds' = r.ids
              /\ cpc' = "decode"
              /\ UNCHANGED cliOut
           \/ /\ ~r.ok
              /\ cliOut' = [printed |-> <<>>, fatal |-> <<"invalid token id", r.bad>>]
              /\ cpc' = "fatal"
              /\ UNCHANGED cliIds
    /\ UNCHANGED <<cliDecode, cliArgs, cliFields, reverseVocabulary, cliRest>>

\* codec.Decode(ids), then the print or the fatal error
CliDecode ==
    /\ cpc = "decode"
    /\ \E rev \in (IF reverseVocabulary.isNil THEN ReverseMaps(vocabulary)
                    ELSE {reverseVocabulary.map}) :
          /\ reverseVocabulary' = Map(rev)
          /\ LET r == DecodeFrom(rev, cliIds, 1, <<>>)
             IN  \/ /\ r.err = NoErr
                    /\ cliOut' = [printed |-> r.text, fatal |-> <<>>]
                    /\ cpc' = "done"
                 \/ /\ r.err # NoErr
                    /\ cliOut' = [printed |-> <<>>, fatal |-> <<"error decoding", r.err>>]
                    /\ cpc' = "fatal"
    /\ UNCHANGED <<cliDecode, cliArgs, cliFields, cliIds, cliRest>>

NextCli == CliSplit \/ CliParse \/ CliDecode

SpecCli == InitCli /\ [][NextCli]_vars

\* a space-separated list of decimal integers: digits and single spaces,
\* with a digit at either end
IsIntegerList(s) ==
    /\ s # <<>>
    /\ \A i \in 1..Len(s) : s[i] \in Digits \cup {" "}
    /\ s[1] # " " /\ s[Len(s)] # " "
    /\ \A i \in 1..(Len(s) - 1) : ~(s[i] = " " /\ s[i + 1] = " ")

\* the integers of such a list, in order
IntegersOf(s) == LET items == Split(s) IN [i \in 1..Len(items) |-> DecimalValue(items[i], 0)]

\* C7: run with a -decode value that is a space-separated list of decimal
\* integers, all ids of the vocabulary, and no positional argument, the
\* command hands exactly that list to Codec.Decode and prints the decoded
\* text without a fatal error.
C7_CliDecode ==
    (/\ cpc \in {"done", "fatal"}
     /\ cliArgs = <<>>
     /\ IsIntegerList(cliDecode)
     /\ \A i \in 1..Len(IntegersOf(cliDecode)) :
            IntegersOf(cliDecode)[i] \in Range(vocabulary)) =>
        /\ cpc = "done"
        /\ cliIds = IntegersOf(cliDecode)
        /\ cliOut.fatal = <<>>

(***************************************************************************)
(* SpecBpe: one bpe call, an iteration of the merge loop at a time.        *)
(***************************************************************************)
InitBpe ==
    /\ vocabulary \in Vocabs
    /\ FacadeIdle
    /\ RaceIdle
    /\ ToolsIdle
    /\ piece = <<>>
    /\ parts = NoParts
    /\ bpc = "idle"
    /\ bres = NoResult

\* entry to bpe up to the head of the merge loop
BpeEnter ==
    /\ bpc = "idle"
    /\ \E pc \in Strings(MaxChunk) :
          /\ piece' = pc
          /\ parts' = InitParts(vocabulary, pc)
    /\ bpc' = "loop"
    /\ UNCHANGED <<vocabulary, bres, facadeVars, raceVars, otherVars>>

\* one iteration that merges
BpeMerge ==
    /\ bpc = "loop"
    /\ ~LoopExits(parts)
    /\ parts' = MergeStep(vocabulary, piece, parts)
    /\ UNCHANGED <<vocabulary, piece, bpc, bres, facadeVars, raceVars, otherVars>>

\* the iteration that breaks out of the loop, and the final loop and return
BpeBreak ==
    /\ bpc = "loop"
    /\ LoopExits(parts)
    /\ bres' = Emit(vocabulary, piece, parts)
    /\ bpc' = "done"
    /\ UNCHANGED <<vocabulary, piece, parts, facadeVars, raceVars, otherVars>>

NextBpe == BpeEnter \/ BpeMerge \/ BpeBreak

SpecBpe == InitBpe /\ [][NextBpe]_vars

(***************************************************************************)
(* The reference greedy BPE: spans start as single bytes; each step ranks  *)
(* every adjacent pair of spans from scratch, merges the pair of lowest    *)
(* rank (the leftmost on ties) and stops when no pair is in the vocabulary *)
(* or one span is left.                                                    *)
(***************************************************************************)
ByteSpans(pc) == [i \in 1..Len(pc) |-> <<pc[i]>>]

PairIn(v, spans, i) == (spans[i] \o spans[i + 1]) \in DOMAIN v

PairRank(v, spans, i) == v[spans[i] \o spans[i + 1]]

RefPick(v, spans) ==
    CHOOSE i \in 1..(Len(spans) - 1) :
        /\ PairIn(v, spans, i)
        /\ \A j \in 1..(Len(spans) - 1) :
              PairIn(v, spans, j) =>
                 \/ PairRank(v, spans, i) < PairRank(v, spans, j)
                 \/ (PairRank(v, spans, i) = PairRank(v, spans, j) /\ i <= j)

RECURSIVE RefMerge(_, _)
RefMerge(v, spans) ==
    IF Len(spans) <= 1 \/ \A i \in 1..(Len(spans) - 1) : ~PairIn(v, spans, i)
    THEN spans
    ELSE LET i == RefPick(v, spans)
         IN  RefMerge(v, SubSeq(spans, 1, i - 1) \o <<spans[i] \o spans[i + 1]>>
                         \o SubSeq(spans, i + 2, Len(spans)))

RefBpe(v, pc) ==
    LET spans == RefMerge(v, ByteSpans(pc))
    IN  [ids    |-> [i \in 1..Len(spans) |-> VocabGet(v, spans[i])],
         tokens |-> spans]

\* C8: bpe returns what the reference greedy BPE returns, for every chunk
\* whose bytes are all in the vocabulary; with a=0, b=1, c=2, ab=3, abc=4
\* the chunk "abc" yields the ids [4].
C8_GreedyEquivalence ==
    (bpc = "done" /\ HasBytesOf(vocabulary, piece)) =>
        /\ bres = RefBpe(vocabulary, piece)
        /\ (vocabulary = ToyVocab /\ piece = <<"a", "b", "c">>) => bres.ids = <<4>>

\* a call that met a tie between two mergeable pairs and merged twice
C8_Witness ==
    /\ bpc = "done"
    /\ HasBytesOf(vocabulary, piece)
    /\ piece = <<"a", "a", "a", "b", "c">> \/ piece = <<"a", "a", "a", "b">>
    /\ Len(bres.ids) <= Len(piece) - 2

\* the score a boundary must carry: the rank of chunk[offset(i):offset(i+2)]
\* (i from 0), or the sentinel
ExactScore(v, pc, ps, i) ==
    IF i + 2 <= Len(ps) - 1
       /\ SubSeq(pc, ps[i + 1].offset + 1, ps[i + 3].offset) \in DOMAIN v
    THEN v[SubSeq(pc, ps[i + 1].offset + 1, ps[i + 3].offset)]
    ELSE MaxUint

\* C9: at the head of every iteration of the merge loop the offsets rise
\* strictly from 0 to len(chunk) and every stored score is exact.
C9_ScoresExact ==
    bpc = "loop" =>
        /\ parts[1].offset = 0
        /\ parts[Len(parts)].offset = Len(piece)
        /\ \A i \in 1..(Len(parts) - 1) : parts[i].offset < parts[i + 1].offset
        /\ \A i \in 0..(Len(parts) - 1) :
              parts[i + 1].rank = ExactScore(vocabulary, piece, parts, i)

\* after a merge that was not at index 0, with a finite score still stored
C9_Witness ==
    /\ bpc = "loop"
    /\ Len(parts) < Len(piece) + 1
    /\ parts[2].offset - parts[1].offset = 1
    /\ \E i \in 1..Len(parts) : parts[i].rank < MaxUint

====
